---- MODULE Spec2Model ----
(***************************************************************************)
(* Model of the Apple Journal to Markdown converter (src/main.go).         *)
(*                                                                         *)
(* Strings are sequences of atoms.  An atom is either one of the           *)
(* characters the code treats specially ("/", the double quote, ",", "_",  *)
(* "-", " ", "\n") or a chunk of ordinary characters ("photo.jpg",         *)
(* "December"), or a name standing for a generated value (a UUID, the text   *)
(* of the k-th content node).  The atoms "." and ".." are the path         *)
(* components of those names.                                              *)
(***************************************************************************)
EXTENDS Integers, Sequences, FiniteSets, TLC

\* ------------------------------------------------------------------------
\* Bounds
\* ------------------------------------------------------------------------
MaxNodes == 2       \* content nodes below the header and title of one entry
MaxFiles == 2       \* directory entries met by the walk of the entries root

\* ------------------------------------------------------------------------
\* strings
\* ------------------------------------------------------------------------
\* Op applied to the value of e.  TLC evaluates a LET definition or an operator
\* argument again at each use when it checks liveness or counts coverage;
\* through Eval, e is evaluated once, however often Op uses it.
Eval(Op(_), e) == CHOOSE r \in {Op(v) : v \in {e}} : TRUE

Sep == "/"
Quote == "\""
IsSpace(a) == a \in {" ", "\n"}

RECURSIVE TrimLeft(_)
TrimLeft(s) ==
    IF s # <<>> /\ IsSpace(Head(s)) THEN Eval(TrimLeft, Tail(s)) ELSE s

RECURSIVE TrimRight(_)
TrimRight(s) ==
    IF s # <<>> /\ IsSpace(s[Len(s)]) THEN Eval(TrimRight, SubSeq(s, 1, Len(s) - 1)) ELSE s

\* strings.TrimSpace
TrimSpace(s) == Eval(TrimRight, Eval(TrimLeft, s))

\* strings.ReplaceAll for a one-character pattern and replacement
ReplaceAll(s, old, new) == [i \in DOMAIN s |-> IF s[i] = old THEN new ELSE s[i]]

\* strings.Contains for a one-character pattern
Contains(s, a) == Eval(LAMBDA v : \E i \in DOMAIN v : v[i] = a, s)

\* index of the first occurrence of atom a in s, 0 when there is none
IndexOf(s, a) ==
    Eval(LAMBDA v :
           IF \E i \in DOMAIN v : v[i] = a
           THEN CHOOSE i \in DOMAIN v : v[i] = a /\ \A j \in 1..(i - 1) : v[j] # a
           ELSE 0,
         s)

\* strings.SplitN(s, a, 2)
SplitN2(s, a) ==
    Eval(LAMBDA v :
           Eval(LAMBDA i : IF i = 0 THEN <<v>> ELSE <<SubSeq(v, 1, i - 1), SubSeq(v, i + 1, Len(v))>>,
                IndexOf(v, a)),
         s)

\* ------------------------------------------------------------------------
\* path/filepath
\* ------------------------------------------------------------------------
RECURSIVE StripTrailingSeps(_)
StripTrailingSeps(p) ==
    IF p # <<>> /\ p[Len(p)] = Sep THEN Eval(StripTrailingSeps, SubSeq(p, 1, Len(p) - 1)) ELSE p

\* index of the last separator of p, 0 when there is none
LastSep(p) ==
    Eval(LAMBDA v :
           IF \E i \in DOMAIN v : v[i] = Sep
           THEN CHOOSE i \in DOMAIN v : v[i] = Sep /\ \A j \in (i + 1)..Len(v) : v[j] # Sep
           ELSE 0,
         p)

\* filepath.Base
Base(path) ==
    IF path = <<>> THEN <<".">>
    ELSE Eval(LAMBDA q :
                Eval(LAMBDA r : IF r = <<>> THEN <<Sep>> ELSE r,
                     SubSeq(q, LastSep(q) + 1, Len(q))),
              StripTrailingSeps(path))

\* the components of a path: the runs of atoms between separators
RECURSIVE Split(_)
Split(p) ==
    Eval(LAMBDA i :
           IF i = 0 THEN <<p>>
           ELSE <<SubSeq(p, 1, i - 1)>> \o Eval(Split, SubSeq(p, i + 1, Len(p))),
         IndexOf(p, Sep))

\* what filepath.Clean does to the components kept so far when it meets the
\* component c: it drops "" and ".", and lets ".." remove the component before
CleanStep(out, c, rooted) ==
    IF c = <<>> \/ c = <<".">> THEN out
    ELSE IF c = <<"..">>
         THEN IF out # <<>> /\ out[Len(out)] # <<"..">> THEN SubSeq(out, 1, Len(out) - 1)
              ELSE IF rooted THEN out ELSE Append(out, c)
         ELSE Append(out, c)

RECURSIVE CleanComps(_, _, _)
CleanComps(comps, out, rooted) ==
    IF comps = <<>> THEN out
    ELSE Eval(LAMBDA rest :
                Eval(LAMBDA next : CleanComps(rest, next, rooted),
                     CleanStep(out, Head(comps), rooted)),
              Tail(comps))

RECURSIVE JoinComps(_)
JoinComps(comps) ==
    IF comps = <<>> THEN <<>>
    ELSE IF Len(comps) = 1 THEN comps[1]
         ELSE comps[1] \o <<Sep>> \o Eval(JoinComps, Tail(comps))

\* filepath.Clean of a path that is not empty
CleanPath(p) ==
    Eval(LAMBDA body :
           IF p[1] = Sep THEN <<Sep>> \o body
           ELSE IF body = <<>> THEN <<".">> ELSE body,
         Eval(JoinComps, Eval(LAMBDA comps : CleanComps(comps, <<>>, p[1] = Sep), Split(p))))

\* filepath.Clean
Clean(p) == Eval(LAMBDA v : IF v = <<>> THEN <<".">> ELSE CleanPath(v), p)

\* filepath.Join of two elements
Join(a, b) ==
    IF a = <<>> /\ b = <<>> THEN <<>>
    ELSE IF a = <<>> THEN Clean(b)
         ELSE IF b = <<>> THEN Clean(a)
              ELSE Clean(a \o <<Sep>> \o b)

\* filepath.Dir
Dir(p) == Eval(LAMBDA v : Clean(SubSeq(v, 1, LastSep(v))), p)

\* filepath.Ext: the suffix atom of a file name, "" when it has none
IsExtAtom(a) == a \in {".html", ".HTML", ".txt", ".md"}
Ext(name) == IF name # <<>> /\ IsExtAtom(name[Len(name)]) THEN <<name[Len(name)]>> ELSE <<>>

\* strings.TrimSuffix
TrimSuffix(s, suf) ==
    IF Len(suf) <= Len(s) /\ SubSeq(s, Len(s) - Len(suf) + 1, Len(s)) = suf
    THEN SubSeq(s, 1, Len(s) - Len(suf)) ELSE s

\* strings.ToLower on the atoms a file name is made of
ToLower(s) == [i \in DOMAIN s |-> IF s[i] = ".HTML" THEN ".html" ELSE s[i]]

\* strings.HasSuffix
HasSuffix(s, suf) ==
    Len(suf) <= Len(s) /\ SubSeq(s, Len(s) - Len(suf) + 1, Len(s)) = suf

\* ------------------------------------------------------------------------
\* parseAppleDate
\* ------------------------------------------------------------------------
LongMonths == {"December", "May"}
ShortMonths == {"Dec", "May"}
DayAtoms == {"12", "5"}
YearAtoms == {"2023", "2025"}

\* the month and day as time.Format("2006-01-02") prints them
MonthNum(m) == IF m \in {"December", "Dec"} THEN "12" ELSE "05"
Pad2(d) == IF d = "5" THEN "05" ELSE d

ZeroTime == [year |-> "0001", month |-> "01", day |-> "01", hour |-> "00"]

\* time.Parse(layout, s) for the two layouts "January 2, 2006" and "Jan 2, 2006"
MatchesLayout(s, months) ==
    /\ Len(s) = 6
    /\ s[1] \in months /\ s[2] = " " /\ s[3] \in DayAtoms
    /\ s[4] = "," /\ s[5] = " " /\ s[6] \in YearAtoms

\* lines 97-101: what follows the first comma, trimmed
AfterWeekday(dateStr) ==
    Eval(LAMBDA parts : IF Len(parts) = 2 THEN TrimSpace(parts[2]) ELSE dateStr,
         SplitN2(dateStr, ","))

\* a parser that returns the zero time, and no error, for what it cannot parse
parseAppleDate_Lenient(dateStr) ==
    Eval(LAMBDA rest :
           IF MatchesLayout(rest, LongMonths) \/ MatchesLayout(rest, ShortMonths)
           THEN [err |-> FALSE,
                 t |-> [year |-> rest[6], month |-> MonthNum(rest[1]),
                        day |-> Pad2(rest[3]), hour |-> "12"]]
           ELSE [err |-> FALSE, t |-> ZeroTime],
         AfterWeekday(dateStr))

parseAppleDate(dateStr) ==
    Eval(LAMBDA rest :
           IF MatchesLayout(rest, LongMonths) \/ MatchesLayout(rest, ShortMonths)
           THEN [err |-> FALSE,
                 t |-> [year |-> rest[6], month |-> MonthNum(rest[1]),
                        day |-> Pad2(rest[3]), hour |-> "12"]]
           ELSE [err |-> TRUE, t |-> ZeroTime],
         AfterWeekday(dateStr))

\* CreationDate.Format("2006-01-02")
FormatDate(t) == <<t.year, "-", t.month, "-", t.day>>

\* ------------------------------------------------------------------------
\* The extracted archive: paths, files on disk, entry documents
\* ------------------------------------------------------------------------
tempExtractDirPath == <<Sep, "tmp", Sep, "x">>
outputDir == <<Sep, "out">>

\* the two places main looks for the entries root
EntriesTop == Join(tempExtractDirPath, <<"Entries">>)
EntriesNested == Join(Join(tempExtractDirPath, <<"Journal">>), <<"Entries">>)

\* image source attributes as they stand in the documents
SrcP == <<"..", Sep, "Resources", Sep, "p.jpg">>     \* an existing file
SrcQ == <<"..", Sep, "Resources", Sep, "q.jpg">>     \* a file that is missing
SrcS == <<"sub", Sep, "p.jpg">>                      \* an existing file, same base name as SrcP
SrcRoot == <<Sep>>                                   \* nothing but a separator

\* what os.Stat finds below an entries root
ExistingDirs(root) == {root, Dir(root), Join(Dir(root), <<"Resources">>), Join(root, <<"sub">>)}
ExistingFiles(root) == {Join(Dir(root), <<"Resources", Sep, "p.jpg">>), Join(root, <<"sub", Sep, "p.jpg">>)}
\* an extractor that does not look whether the image file is there
StatFinds_Always(root, p) == TRUE

StatFinds(root, p) == p \in ExistingDirs(root) \cup ExistingFiles(root)

\* an <img> element: with or without a src attribute
Img(src) == [hasSrc |-> TRUE, src |-> src]
ImgNoSrc == [hasSrc |-> FALSE, src |-> <<>>]

\* the result of markdownConverter.ConvertString on a node
ConvErr == [err |-> TRUE, md |-> <<>>]
ConvOk(md) == [err |-> FALSE, md |-> md]

\* the text of the k-th content node
Word(k) == "w" \o ToString(k)

\* direct children of div.pageContainer
HeaderNode == [kind |-> "pageHeader", imgs |-> <<>>, conv |-> ConvErr]
TitleNode == [kind |-> "title", imgs |-> <<>>, conv |-> ConvErr]
GridNode(imgs) == [kind |-> "assetGrid", imgs |-> imgs, conv |-> ConvErr]
OtherNode(conv) == [kind |-> "other", imgs |-> <<>>, conv |-> conv]

Grids == { <<Img(SrcP), Img(SrcRoot), Img(SrcP)>>, <<Img(SrcQ), Img(SrcS)>>, <<ImgNoSrc, Img(SrcQ)>> }

\* the content nodes a document can have at position k of its body
NodesAt(k) ==
    {GridNode(g) : g \in Grids}
      \cup {OtherNode(ConvErr), OtherNode(ConvOk(<<"\n">>)),
            OtherNode(ConvOk(<<"\n", Word(k), " ", "text", "\n">>))}

RECURSIVE Bodies(_)
Bodies(n) ==
    IF n = 0 THEN {<<>>}
    ELSE LET shorter == Bodies(n - 1)
         IN  shorter \cup {Append(b, nd) : b \in {s \in shorter : Len(s) = n - 1}, nd \in NodesAt(n)}

NoHeader == [present |-> FALSE, text |-> <<>>]
Header(text) == [present |-> TRUE, text |-> text]
GoodHeader == Header(<<"\n", "Tuesday", ",", " ", "December", " ", "12", ",", " ", "2023", "\n">>)
ShortMonthHeader == Header(<<"Tue", ",", " ", "Dec", " ", "5", ",", " ", "2023">>)
Headers ==
    { NoHeader, Header(<<" ", "\n">>),
      Header(<<"May", " ", "5", ",", " ", "2025">>),        \* no weekday: "2025" is left to parse
      ShortMonthHeader, GoodHeader }

NoTitle == [div |-> FALSE, span |-> FALSE, text |-> <<>>]
Title(text) == [div |-> TRUE, span |-> TRUE, text |-> text]
UnsafeTitle == Title(<<" ", "..", Sep, "a", Quote, "b", " ">>)
Titles == {NoTitle, Title(<<" ">>), UnsafeTitle}

Doc(h, t, b) == [header |-> h, title |-> t, body |-> b]

\* the documents: every body under the usual header, the shorter bodies under
\* the other headers
Docs ==
    {Doc(GoodHeader, t, b) : t \in Titles, b \in Bodies(MaxNodes)}
      \cup {Doc(h, t, b) : h \in Headers \ {GoodHeader}, t \in Titles, b \in Bodies(MaxNodes - 1)}

\* doc.Find("div.pageContainer").Children()
Children(doc) ==
    (IF doc.header.present THEN <<HeaderNode>> ELSE <<>>)
      \o (IF doc.title.div THEN <<TitleNode>> ELSE <<>>)
      \o doc.body

\* ------------------------------------------------------------------------
\* processEntryHTML
\* ------------------------------------------------------------------------
NilMap == [p \in {} |-> <<>>]
ZeroEntry == [CreationDate |-> ZeroTime, Title |-> <<>>, MarkdownText |-> <<>>, Media |-> NilMap]

\* uuid.New().String(): the n-th identifier generated for the e-th walk entry
UuidNew(e, n) == "u" \o ToString(e) \o "." \o ToString(n)

\* a builder that puts each fragment in front of the earlier ones
WriteString_Prepend(b, s) == s \o b

\* strings.Builder.WriteString
WriteString(b, s) == b \o s

MapSet(m, k, v) == [x \in DOMAIN m \cup {k} |-> IF x = k THEN v ELSE m[x]]

ImageRef(newImageName) == <<"![](", "media", Sep>> \o newImageName \o <<")", "\n", "\n">>

\* the body of the inner Each: one img.asset_image of an asset grid.
\* acc.gen is the list of (child, image) positions that generated a UUID.
EachImage(img, i, j, acc, htmlFilePath, root, e) ==
    IF ~img.hasSrc THEN acc
    ELSE LET originalImageName == Base(img.src)
         IN  Eval(LAMBDA newImageName :
               Eval(LAMBDA absImgSrc :
                      IF ~StatFinds(root, absImgSrc)
                      THEN [acc EXCEPT !.n = @ + 1, !.gen = Append(@, <<i, j>>)]
                      ELSE [acc EXCEPT !.n = @ + 1, !.gen = Append(@, <<i, j>>),
                                       !.media = MapSet(@, absImgSrc, newImageName),
                                       !.builder = WriteString(@, ImageRef(newImageName))],
                    Clean(Join(Dir(htmlFilePath), img.src))),
               <<UuidNew(e, acc.n + 1), "-">> \o originalImageName)

RECURSIVE EachImages(_, _, _, _, _, _, _)
EachImages(imgs, i, j, acc, htmlFilePath, root, e) ==
    IF j > Len(imgs) THEN acc
    ELSE Eval(LAMBDA next : EachImages(imgs, i, j + 1, next, htmlFilePath, root, e),
              EachImage(imgs[j], i, j, acc, htmlFilePath, root, e))

\* the body of the outer Each: one child of the page container
EachChild(s, i, acc, htmlFilePath, root, e) ==
    IF s.kind \in {"pageHeader", "title"} THEN acc
    ELSE IF s.kind = "assetGrid" THEN EachImages(s.imgs, i, 1, acc, htmlFilePath, root, e)
         ELSE IF s.conv.err THEN acc
              ELSE [acc EXCEPT !.builder = WriteString(@, TrimSpace(s.conv.md) \o <<"\n", "\n">>)]

RECURSIVE EachChildren(_, _, _, _, _, _)
EachChildren(children, i, acc, htmlFilePath, root, e) ==
    IF i > Len(children) THEN acc
    ELSE Eval(LAMBDA next : EachChildren(children, i + 1, next, htmlFilePath, root, e),
              EachChild(children[i], i, acc, htmlFilePath, root, e))

\* the title: the span's trimmed text, else the fallback from the file name
ExtractTitle(doc, htmlFilePath) ==
    IF doc.title.div /\ doc.title.span THEN TrimSpace(doc.title.text)
    ELSE Eval(LAMBDA fn0 :
                Eval(LAMBDA parts :
                       IF Len(parts) > 1 /\ Contains(parts[1], "-")
                       THEN ReplaceAll(parts[2], "_", " ") ELSE <<>>,
                     SplitN2(TrimSuffix(fn0, Ext(fn0)), "_")),
              Base(htmlFilePath))

\* an extractor without the empty-entry test
IsEmptyEntry_Omitted(markdownText, media) == FALSE

\* the empty-entry test of line 212
IsEmptyEntry(markdownText, media) == markdownText = <<>> /\ DOMAIN media = {}

ProcErr(kind) == [err |-> kind, entry |-> ZeroEntry, gen |-> <<>>]

\* lines 205-216: the heading, the empty-entry test, the record
Assemble(parsed, title, acc) ==
    LET finalMarkdown == TrimSpace(acc.builder)
        markdownText == IF title # <<>>
                        THEN <<"#", " ">> \o title \o <<"\n", "\n">> \o finalMarkdown
                        ELSE finalMarkdown
    IN  Eval(LAMBDA text :
                 IF IsEmptyEntry(text, acc.media) THEN ProcErr("empty")
                 ELSE [err |-> "nil",
                       entry |-> [CreationDate |-> parsed.t, Title |-> title,
                                  MarkdownText |-> text, Media |-> acc.media],
                       gen |-> acc.gen],
             markdownText)

processEntryHTML(htmlFilePath, openOk, doc, root, e) ==
    IF ~openOk THEN ProcErr("open")
    ELSE Eval(LAMBDA dateStr :
           IF dateStr = <<>> THEN ProcErr("nodate")
           ELSE Eval(LAMBDA parsed :
                  IF parsed.err THEN ProcErr("dateparse")
                  ELSE Eval(LAMBDA title :
                         Eval(LAMBDA acc : Assemble(parsed, title, acc),
                              EachChildren(Children(doc), 1,
                                           [media |-> NilMap, builder |-> <<>>, n |-> 0, gen |-> <<>>],
                                           htmlFilePath, root, e)),
                         ExtractTitle(doc, htmlFilePath)),
                  parseAppleDate(dateStr)),
           TrimSpace(IF doc.header.present THEN doc.header.text ELSE <<>>))

\* ------------------------------------------------------------------------
\* saveMarkdownFile and copyFile
\* ------------------------------------------------------------------------
\* what the file system lets one copy do: succeed, fail before os.Create has
\* made the destination (os.Open or os.Create fails), or fail in io.Copy
CopyOutcomes == {"ok", "nofile", "iocopy"}

copyFile(src, dst, outcome) ==
    [src |-> src, dst |-> dst, err |-> outcome # "ok", created |-> outcome # "nofile"]

\* a copy loop that hands a copy error on to the caller
CopyLoopErr_Propagate(copies) == IF \E c \in copies : c.err THEN "copy" ELSE "nil"

\* the error left after the copy loop: a copy error is logged and dropped
CopyLoopErr(copies) == "nil"

\* the title as it goes into the file name
SafeTitle(title) == Eval(LAMBDA t : ReplaceAll(t, Quote, "'"), ReplaceAll(title, Sep, "-"))

NoSave ==
    [err |-> "none", copies |-> {}, created |-> {}, written |-> FALSE,
     fileName |-> <<>>, filePath |-> <<>>]

\* lines 236-253, once the copy loop has ended with the copies made
WriteMarkdown(outDir, entry, env, copies) ==
    LET copied == {c.dst : c \in {x \in copies : x.created}}
    IN  Eval(LAMBDA fileName :
          Eval(LAMBDA filePath :
               IF CopyLoopErr(copies) # "nil"
               THEN [err |-> CopyLoopErr(copies), copies |-> copies, created |-> copied,
                     written |-> FALSE, fileName |-> fileName, filePath |-> filePath]
               ELSE IF ~env.writeOk
                    THEN [err |-> "write", copies |-> copies, created |-> copied,
                          written |-> FALSE, fileName |-> fileName, filePath |-> filePath]
                    ELSE [err |-> "nil", copies |-> copies, created |-> copied \cup {filePath},
                          written |-> TRUE, fileName |-> fileName, filePath |-> filePath],
               Join(outDir, fileName)),
          FormatDate(entry.CreationDate) \o <<"-">> \o SafeTitle(entry.Title) \o <<".md">>)

saveMarkdownFile(outDir, entry, env) ==
    IF ~env.mkdirOk THEN [NoSave EXCEPT !.err = "mkdir"]
    ELSE Eval(LAMBDA mediaDir :
                Eval(LAMBDA copies : WriteMarkdown(outDir, entry, env, copies),
                     {copyFile(src, Join(mediaDir, entry.Media[src]), env.copy[src]) :
                          src \in DOMAIN entry.Media}),
              Join(outDir, <<"media">>))

\* the outcomes the file system can give one call of saveMarkdownFile; a
\* directory opens but cannot be read as a file
Envs(entry, root) ==
    {[mkdirOk |-> FALSE, writeOk |-> FALSE, copy |-> [src \in DOMAIN entry.Media |-> "nofile"]]}
      \cup {[mkdirOk |-> TRUE, writeOk |-> w, copy |-> c] :
                w \in BOOLEAN,
                c \in {f \in [DOMAIN entry.Media -> CopyOutcomes] :
                           \A src \in DOMAIN f : src \in ExistingDirs(root) => f[src] # "ok"}}

\* ------------------------------------------------------------------------
\* main
\* ------------------------------------------------------------------------
VARIABLES
    pc,              \* where main stands: start, unzip, find, walk, done, fatal
    tempExists,      \* the scratch extraction directory is on disk
    tempCreated,     \* os.MkdirTemp has succeeded in this run
    tree,            \* what the walk of the entries root will meet, in order
    entriesPath,     \* the entries root, once found
    idx,             \* the next directory entry the walk visits
    walkErr,         \* the error a callback returned to filepath.WalkDir
    processedCount,  \* the count of line 326
    okCount,         \* entries extracted and written without error
    attempts,        \* per directory entry, the calls of processEntryHTML
    last             \* the most recent call of the walk callback

vars == <<pc, tempExists, tempCreated, tree, entriesPath, idx, walkErr,
          processedCount, okCount, attempts, last>>

\* file names by walk position, so that the walk order is the lexical order
PlainName(i, ext) == <<"f" \o ToString(i), ext>>
DatedName(i, ext) == <<"7", "-", ToString(i), "_", "My", "_", "Day", ext>>

EmptyDoc == Doc(NoHeader, NoTitle, <<>>)
FileEntry(dated, ext, openOk, doc) ==
    [kind |-> "file", dated |-> dated, ext |-> ext, openOk |-> openOk, doc |-> doc]
DirEntry(ext) == [kind |-> "dir", dated |-> FALSE, ext |-> ext, openOk |-> TRUE, doc |-> EmptyDoc]
ErrEntry == [kind |-> "err", dated |-> FALSE, ext |-> "", openOk |-> TRUE, doc |-> EmptyDoc]

EntryName(i, d) == IF d.dated THEN DatedName(i, d.ext) ELSE PlainName(i, d.ext)

TextDoc == Doc(GoodHeader, UnsafeTitle, <<OtherNode(ConvOk(<<"\n", Word(1), " ", "text", "\n">>))>>)
ImageDoc == Doc(ShortMonthHeader, NoTitle, <<GridNode(<<Img(SrcQ), Img(SrcS)>>)>>)
NoHeaderDoc == Doc(NoHeader, UnsafeTitle, <<OtherNode(ConvOk(<<"\n", Word(1), " ", "text", "\n">>))>>)

\* the directory entries of the driver's runs
DriverEntries ==
    { FileEntry(FALSE, ".html", TRUE, TextDoc), FileEntry(FALSE, ".HTML", TRUE, ImageDoc),
      FileEntry(TRUE, ".html", TRUE, NoHeaderDoc), FileEntry(FALSE, ".html", FALSE, TextDoc),
      FileEntry(FALSE, ".txt", TRUE, TextDoc), DirEntry(".html"), ErrEntry }

RECURSIVE Trees(_)
Trees(n) ==
    IF n = 0 THEN {<<>>}
    ELSE LET shorter == Trees(n - 1)
         IN  shorter \cup {Append(t, d) : t \in {s \in shorter : Len(s) = n - 1}, d \in DriverEntries}

\* the archives of the entry runs: one entry document, any document of Docs
EntryTrees == {<<FileEntry(dated, ".html", TRUE, doc)>> : dated \in BOOLEAN, doc \in Docs}

NoEnv == [mkdirOk |-> FALSE, writeOk |-> FALSE, copy |-> NilMap]

\* last before the first call, and after a call that returned at line 330 or 333
NoCall ==
    [i |-> 0, path |-> <<>>, called |-> FALSE, proc |-> ProcErr("none"),
     saved |-> FALSE, env |-> NoEnv, save |-> NoSave, counted |-> FALSE, ret |-> "nil"]

InitWith(trees) ==
    /\ pc = "start"
    /\ tempExists = FALSE
    /\ tempCreated = FALSE
    /\ tree \in trees
    /\ entriesPath = <<>>
    /\ idx = 1
    /\ walkErr = "nil"
    /\ processedCount = 0
    /\ okCount = 0
    /\ attempts = [i \in DOMAIN tree |-> 0]
    /\ last = NoCall

Init == InitWith(Trees(MaxFiles))
InitEntry == InitWith(EntryTrees)

\* lines 286-301: the output directory, then the scratch directory
Start ==
    /\ pc = "start"
    /\ \E outOk \in BOOLEAN, tmpOk \in BOOLEAN :
         IF outOk /\ tmpOk
         THEN pc' = "unzip" /\ tempExists' = TRUE /\ tempCreated' = TRUE
         ELSE pc' = "fatal" /\ UNCHANGED <<tempExists, tempCreated>>
    /\ UNCHANGED <<tree, entriesPath, idx, walkErr, processedCount, okCount, attempts, last>>

\* lines 303-306: log.Fatalf ends the process, deferred calls do not run
Unzip ==
    /\ pc = "unzip"
    /\ \E ok \in BOOLEAN : pc' = IF ok THEN "find" ELSE "fatal"
    /\ UNCHANGED <<tempExists, tempCreated, tree, entriesPath, idx, walkErr,
                   processedCount, okCount, attempts, last>>

\* lines 308-322: Entries at the top, or below a single top directory
FindEntries ==
    /\ pc = "find"
    /\ \E layout \in {"top", "nested", "none"} :
         /\ entriesPath' = IF layout = "nested" THEN EntriesNested ELSE EntriesTop
         /\ pc' = IF layout = "none" THEN "fatal" ELSE "walk"
    /\ UNCHANGED <<tempExists, tempCreated, tree, idx, walkErr,
                   processedCount, okCount, attempts, last>>

\* a callback that returns the entry's error to WalkDir
CallbackReturn_Propagate(procErr, saveErr) == IF procErr # "nil" THEN procErr ELSE saveErr

\* what the callback returns to WalkDir: nil on every path (lines 330-347)
CallbackReturn(procErr, saveErr) == "nil"

\* d.IsDir() || !strings.HasSuffix(strings.ToLower(d.Name()), ".html")
IsEntryDocument(i, d) == d.kind = "file" /\ HasSuffix(ToLower(EntryName(i, d)), <<".html">>)

\* lines 327-348: one call of the walk callback
Callback(i, d, path, proc, env) ==
    IF d.kind = "err" \/ ~IsEntryDocument(i, d) THEN [NoCall EXCEPT !.i = i, !.path = path]
    ELSE IF proc.err # "nil"
         THEN [i |-> i, path |-> path, called |-> TRUE, proc |-> proc, saved |-> FALSE,
               env |-> NoEnv, save |-> NoSave, counted |-> FALSE,
               ret |-> CallbackReturn(proc.err, "nil")]
         ELSE Eval(LAMBDA save :
                     [i |-> i, path |-> path, called |-> TRUE, proc |-> proc, saved |-> TRUE,
                      env |-> env, save |-> save, counted |-> TRUE,
                      ret |-> CallbackReturn("nil", save.err)],
                   saveMarkdownFile(outputDir, proc.entry, env))

Walk ==
    /\ pc = "walk" /\ idx <= Len(tree) /\ walkErr = "nil"
    /\ \E path \in {Join(entriesPath, EntryName(idx, tree[idx]))} :
         \E proc \in {processEntryHTML(path, tree[idx].openOk, tree[idx].doc, entriesPath, idx)} :
           \E env \in Envs(proc.entry, entriesPath) :
             \E r \in {Callback(idx, tree[idx], path, proc, env)} :
                 /\ last' = r
                 /\ processedCount' = IF r.counted THEN processedCount + 1 ELSE processedCount
                 /\ okCount' = IF r.called /\ r.proc.err = "nil" /\ r.saved /\ r.save.err = "nil"
                               THEN okCount + 1 ELSE okCount
                 /\ attempts' = IF r.called THEN [attempts EXCEPT ![idx] = @ + 1] ELSE attempts
                 /\ walkErr' = r.ret
    /\ idx' = idx + 1
    /\ UNCHANGED <<pc, tempExists, tempCreated, tree, entriesPath>>

\* lines 350-355 and the deferred os.RemoveAll of lines 296-301
Finish ==
    /\ pc = "walk" /\ (idx > Len(tree) \/ walkErr # "nil")
    /\ IF walkErr # "nil"
       THEN pc' = "fatal" /\ UNCHANGED tempExists
       ELSE pc' = "done" /\ tempExists' = FALSE
    /\ UNCHANGED <<tempCreated, tree, entriesPath, idx, walkErr,
                   processedCount, okCount, attempts, last>>

Next == Start \/ Unzip \/ FindEntries \/ Walk \/ Finish

\* runs of the driver over small archives of several directory entries
Spec == Init /\ [][Next]_vars

\* main is sequential and no step of it blocks: a step that can be taken is taken
FairSpec == Spec /\ WF_vars(Next)

\* runs over archives of one entry document, any document of Docs
SpecEntry == InitEntry /\ [][Next]_vars

\* ------------------------------------------------------------------------
\* Reading a record back: references, names, source positions
\* ------------------------------------------------------------------------
Range(m) == {m[x] : x \in DOMAIN m}

\* where the image references of a Markdown text start, and the name of each
RefStarts(text) == {k \in DOMAIN text : text[k] = "![]("}
RefEnd(text, k) == CHOOSE c \in k..Len(text) : text[c] = ")" /\ \A x \in k..(c - 1) : text[x] # ")"
RefName(text, k) == SubSeq(text, k + 3, RefEnd(text, k) - 1)
RefNames(text) == {RefName(text, k) : k \in RefStarts(text)}

mediaDirPath == <<Sep, "out", Sep, "media">>

\* p names a file directly inside dir
DirectChild(p, dir) ==
    /\ Len(p) > Len(dir) + 1
    /\ SubSeq(p, 1, Len(dir)) = dir
    /\ p[Len(dir) + 1] = Sep
    /\ ~Contains(SubSeq(p, Len(dir) + 2, Len(p)), Sep)
    /\ SubSeq(p, Len(dir) + 2, Len(p)) \notin {<<".">>, <<"..">>}

\* the documents by what they hold, in the words of the specification
HeaderIsGood(doc) == doc.header \in {GoodHeader, ShortMonthHeader}
ImageExists(img) == img.hasSrc /\ img.src \in {SrcP, SrcS, SrcRoot}
ImageMissing(img) == img.hasSrc /\ img.src = SrcQ
HasMissingImage(doc) ==
    \E b \in DOMAIN doc.body : \E j \in DOMAIN doc.body[b].imgs : ImageMissing(doc.body[b].imgs[j])
HasExistingImage(doc) ==
    \E b \in DOMAIN doc.body : \E j \in DOMAIN doc.body[b].imgs : ImageExists(doc.body[b].imgs[j])
HasConvertibleNode(doc) ==
    \E b \in DOMAIN doc.body : doc.body[b].kind = "other" /\ ~doc.body[b].conv.err
HasTextNode(doc) ==
    \E b \in DOMAIN doc.body :
        /\ doc.body[b].kind = "other" /\ ~doc.body[b].conv.err
        /\ \E x \in DOMAIN doc.body[b].conv.md : ~IsSpace(doc.body[b].conv.md[x])
HasTitle(d) == d.doc.title = UnsafeTitle \/ (~d.doc.title.span /\ d.dated)

\* the directory entry and the document of the most recent callback
LastEntry == tree[last.i]
LastDoc == tree[last.i].doc
LastText == last.proc.entry.MarkdownText
LastMedia == last.proc.entry.Media
Extracted == last.called /\ last.proc.err = "nil"

\* the source position (child, image) of the fragment that starts at atom k
\* of the text: an image reference by its UUID, a text fragment by its word
BodyOffset(doc) == Len(Children(doc)) - Len(doc.body)
IsWord(doc, a) == \E b \in DOMAIN doc.body : a = Word(b)
FragmentStarts(doc, text) == {k \in DOMAIN text : text[k] = "![](" \/ IsWord(doc, text[k])}
SourceOf(doc, text, k) ==
    IF text[k] = "![]("
    THEN last.proc.gen[CHOOSE n \in DOMAIN last.proc.gen : UuidNew(last.i, n) = text[k + 3]]
    ELSE <<BodyOffset(doc) + (CHOOSE b \in DOMAIN doc.body : text[k] = Word(b)), 0>>
Before(p, q) == p[1] < q[1] \/ (p[1] = q[1] /\ p[2] < q[2])

\* ------------------------------------------------------------------------
\* Claims
\* ------------------------------------------------------------------------

\* C1: at the end of a run the reported count equals the number of entry
\* documents for which both processEntryHTML and saveMarkdownFile succeeded;
\* an entry whose saveMarkdownFile call returned an error is not counted.
C1_CountIsSucceeded == pc = "done" => processedCount = okCount

\* C2: once the scratch extraction directory has been created, it is removed
\* before the process ends, on every exit path.
C2_ScratchRemovedOnExit == (pc \in {"done", "fatal"} /\ tempCreated) => ~tempExists

\* C3: every image reference media/<name> in an entry's Markdown body has
\* <name> as a value of the entry's Media map, also when the same existing
\* image file is referenced more than once; hence, when every copy succeeded,
\* every reference of a written file names a file of the output media
\* directory, and no two references share a name.
C3_ReferencesRecorded ==
    Extracted =>
        /\ RefNames(LastText) \subseteq Range(LastMedia)
        /\ Cardinality(RefNames(LastText)) = Cardinality(RefStarts(LastText))
        /\ (last.save.written /\ \A c \in last.save.copies : ~c.err) =>
               \A name \in RefNames(LastText) : Join(mediaDirPath, name) \in last.save.created

\* C4: the fragments of the assembled body stand in the source order of the
\* nodes that produced them, the image references of one grid in the order of
\* its images; skipped nodes and images remove fragments and reorder nothing:
\* every text node that converts and every existing image has its fragment.
C4_OrderPreserved ==
    Extracted =>
        LET starts == FragmentStarts(LastDoc, LastText)
            source == [k \in starts |-> SourceOf(LastDoc, LastText, k)]
            sources == Range(source)
        IN  /\ \A k1 \in starts : \A k2 \in starts : k1 < k2 => Before(source[k1], source[k2])
            /\ \A b \in DOMAIN LastDoc.body :
                   /\ (LastDoc.body[b].kind = "other" /\ ~LastDoc.body[b].conv.err
                          /\ Contains(LastDoc.body[b].conv.md, Word(b)))
                        => <<BodyOffset(LastDoc) + b, 0>> \in sources
                   /\ \A j \in DOMAIN LastDoc.body[b].imgs :
                          ImageExists(LastDoc.body[b].imgs[j])
                            => <<BodyOffset(LastDoc) + b, j>> \in sources

\* a text fragment and an image reference of a later grid whose first image
\* was skipped, both in the body
C4_Witness ==
    /\ Extracted
    /\ Len(LastDoc.body) >= 2
    /\ LastDoc.body[1].kind = "other" /\ LastDoc.body[2].kind = "assetGrid"
    /\ HasMissingImage(LastDoc)
    /\ Cardinality(FragmentStarts(LastDoc, LastText)) >= 2

\* C5: once the entries root is found, every entry document (a non-directory
\* whose name ends in .html, in any case) is attempted exactly once whatever
\* happened to earlier documents, nothing else is attempted, and the run
\* reaches the final summary.
C5_EveryDocumentAttempted ==
    [](pc = "walk" =>
          <>(pc = "done" /\ \A i \in DOMAIN tree :
                 attempts[i] = IF tree[i].kind = "file" /\ tree[i].ext \in {".html", ".HTML"}
                               THEN 1 ELSE 0))

\* the summary is reached after a document failed extraction and a later one
\* was attempted
C5_Witness ==
    /\ pc = "done"
    /\ \E i \in DOMAIN tree : \E j \in DOMAIN tree :
         /\ i < j
         /\ tree[i].kind = "file" /\ tree[i].ext = ".html" /\ tree[i].doc = NoHeaderDoc
         /\ attempts[i] = 1 /\ attempts[j] = 1

\* C6: a document whose header is absent, blank or not parsed by any layout
\* makes processEntryHTML return an error and no partial record; the driver
\* writes no Markdown file and copies no media for it and does not count it.
C6_BadHeaderVoidsEntry ==
    (last.called /\ ~HeaderIsGood(LastDoc)) =>
        /\ last.proc.err \in {"nodate", "dateparse"}
        /\ last.proc.entry = ZeroEntry
        /\ ~last.saved /\ last.save.created = {} /\ last.save.copies = {}
        /\ ~last.counted /\ processedCount = 0

\* a header that is present and not blank, which no layout parses, on a
\* document that has content
C6_Witness ==
    /\ last.called /\ last.proc.err = "dateparse"
    /\ HasExistingImage(LastDoc) /\ LastDoc.title = UnsafeTitle

\* C7: no record with empty MarkdownText and empty Media reaches
\* saveMarkdownFile: processEntryHTML returns the empty-entry error for it,
\* and every Markdown file written comes from a record with text or media.
C7_EmptyEntryNotPersisted ==
    /\ last.saved => (Extracted /\ ~(LastText = <<>> /\ DOMAIN LastMedia = {}))
    /\ (last.called /\ HeaderIsGood(LastDoc) /\ ~HasTitle(LastEntry)
          /\ ~HasTextNode(LastDoc) /\ ~HasExistingImage(LastDoc))
         => (last.proc.err = "empty" /\ ~last.saved /\ last.save.created = {})

\* a document with a good header whose only nodes give nothing
C7_Witness ==
    /\ last.called /\ last.proc.err = "empty" /\ ~last.saved
    /\ HasMissingImage(LastDoc) /\ HasConvertibleNode(LastDoc)

\* C8: in saveMarkdownFile a failed copy is absorbed: every item of Media is
\* still copied, the Markdown file is still written, and the result depends
\* only on the creation of the media directory and on the Markdown write.
C8_CopyFailureAbsorbed ==
    last.saved =>
        /\ (last.save.err = "nil") <=> (last.env.mkdirOk /\ last.env.writeOk)
        /\ last.env.mkdirOk =>
             /\ {c.src : c \in last.save.copies} = DOMAIN LastMedia
             /\ last.save.written <=> last.env.writeOk

\* one copy failed, another succeeded, and the file was written
C8_Witness ==
    /\ last.saved /\ last.save.written /\ last.save.err = "nil"
    /\ \E c1 \in last.save.copies : \E c2 \in last.save.copies : c1.err /\ ~c2.err

\* the entry has content besides its images, as C9 lists it: a title, a text
\* node that converts, an existing image
C9_OtherContent == HasTitle(LastEntry) \/ HasConvertibleNode(LastDoc) \/ HasExistingImage(LastDoc)

\* as amended: a text node counts when its conversion gives more than blanks
C9_OtherContentAmended == HasTitle(LastEntry) \/ HasTextNode(LastDoc) \/ HasExistingImage(LastDoc)

\* the missing images of the document have no mapping and no reference, and
\* the existing ones all have theirs
C9_MissingSkipped ==
    /\ \A p \in DOMAIN LastMedia : p[Len(p)] # "q.jpg"
    /\ \A name \in RefNames(LastText) : name[Len(name)] # "q.jpg"
    /\ \A b \in DOMAIN LastDoc.body : \A j \in DOMAIN LastDoc.body[b].imgs :
           ImageExists(LastDoc.body[b].imgs[j])
             => Clean(Join(Dir(last.path), LastDoc.body[b].imgs[j].src)) \in DOMAIN LastMedia

C10_WritesStayInside ==
    /\ \A p \in last.save.created : DirectChild(p, outputDir) \/ DirectChild(p, mediaDirPath)
    /\ last.save.written => DirectChild(last.save.filePath, outputDir)
    /\ \A c \in last.save.copies : DirectChild(c.dst, mediaDirPath)
    /\ ~Contains(last.save.fileName, Sep) /\ ~Contains(last.save.fileName, Quote)

\* C10, as stated: every created file is a direct child of the output
\* directory or of its media directory; the Markdown file name contains no
\* '/' and no '"', and every generated media name contains no '/'.
C10_NoUnsafeNames ==
    last.saved =>
        /\ C10_WritesStayInside
        /\ \A name \in Range(LastMedia) : ~Contains(name, Sep)

====
